---- MODULE Spec2Model ----
(***************************************************************************)
(* Footnote identity, cross-reference and counting:                        *)
(* crates/typst-library/src/model/footnote.rs.                             *)
(*                                                                         *)
(* A run is an authoring phase, in which footnote elements are built with  *)
(* the constructors and casts of FootnoteElem, followed by one layout pass *)
(* over a document: the counter engine asks every placed footnote for its  *)
(* update, in document order, and then declaration_location is called on   *)
(* every footnote of the document, one recursion frame per step.           *)
(***************************************************************************)
EXTENDS FiniteSets, Naturals, Sequences

\* ------------------------------------------------------------------ bounds
NumTexts == 2    \* plain (non-footnote) content values
NumNodes == 3    \* footnotes in the document

\* ------------------------------------------------------------ value types
\* Option<T>: None / Some(x)
None == << >>
Some(x) == << x >>
unwrap(o) == o[1]

LabelNames == {"a", "b"}
Label(n) == [kind |-> "label", id |-> n]
Labels == {Label(n) : n \in LabelNames}

\* The settable `numbering` field: unset (the default pattern "1" is then
\* taken from the style chain) or set to a pattern.
Numberings == {"unset", "1", "*"}

\* enum FootnoteBody { Content(Content), Reference(Label) }
BodyContent(c) == [tag |-> "Content", v |-> c]
BodyReference(l) == [tag |-> "Reference", v |-> l]

\* struct FootnoteElem { numbering, body }
FootnoteElem(n, b) == [numbering |-> n, body |-> b]

\* Content: an opaque owned value. It is either some non-footnote content
\* or a packed FootnoteElem (an element is content too).
Text(i) == [kind |-> "text", id |-> i]
Texts == {Text(i) : i \in 1..NumTexts}
pack(e) == [kind |-> "footnote", elem |-> e]
InnerBodies == {BodyContent(c) : c \in Texts} \cup {BodyReference(l) : l \in Labels}
PackedFootnotes == {pack(FootnoteElem(n, b)) : n \in Numberings, b \in InnerBodies}
Contents == Texts \cup PackedFootnotes

\* A Value handed to a cast: a Content or a Label.
Values == Contents \cup Labels

\* ------------------------------------------------- FootnoteElem, lines 85-117
\* FootnoteElem::new, generated by #[elem]: the required field is given,
\* the settable field is left unset.
new(body) == FootnoteElem("unset", body)

\* with_numbering, generated by #[elem] for the settable field.
with_numbering(self, n) == [self EXCEPT !.numbering = n]

with_content(content) == new(BodyContent(content))

with_label(label) == new(BodyReference(label))

into_ref_fresh(self, label) == with_label(label)
into_ref(self, label) == [self EXCEPT !.body = BodyReference(label)]

is_ref(self) == self.body.tag = "Reference"

body_content(self) == IF self.body.tag = "Content" THEN Some(self.body.v) ELSE None

\* Content::unpack::<FootnoteElem>(): Ok(elem) for a packed footnote,
\* Err(the content itself) otherwise.
unpack(v) ==
    IF v.kind = "footnote" THEN [ok |-> TRUE, v |-> v.elem] ELSE [ok |-> FALSE, v |-> v]

\* cast! { FootnoteElem, v: Content => v.unpack::<Self>().unwrap_or_else(Self::with_content) }
cast_always_wraps(v) == with_content(v)
cast_FootnoteElem(v) ==
    IF unpack(v).ok THEN unpack(v).v ELSE with_content(unpack(v).v)

\* cast! { FootnoteBody, v: Content => Self::Content(v), v: Label => Self::Reference(v) }
cast_FootnoteBody(v) ==
    IF v.kind = "label" THEN BodyReference(v) ELSE BodyContent(v)

\* cast! { FootnoteBody, self => match self { .. => v.into_value() } }
into_value(body) == body.v

\* ------------------------------------------------------------ the document
\* Location of the i-th footnote once the layout pass has placed it.
Loc(i) == 10 + i

\* Packed<FootnoteElem>: the element with its label and its location.
Packed(e, lb, loc) == [elem |-> e, label |-> lb, location |-> loc]

Nodes == 1..NumNodes
DocBodies == {BodyContent(Text(1))} \cup {BodyReference(l) : l \in Labels}
OptLabels == {None} \cup {Some(l) : l \in Labels}
Shapes == [body : DocBodies, label : OptLabels]

\* The document with shapes f, of which the footnotes in P are placed.
MkDoc(f, P) ==
    [i \in Nodes |->
        Packed(new(f[i].body), f[i].label, IF i \in P THEN Some(Loc(i)) ELSE None)]

VARIABLES
    phase,      \* "author", "authored", "count", "resolve", "done", "aborted"
    elem,       \* authoring: Option of the footnote element last built
    derived,    \* authoring: Option of the element last made by into_ref
    made,       \* authoring: the last operation, its input, the receiver before it
    doc,        \* the footnotes of the document, in document order
    heading,    \* Option of the label of the document's one non-footnote element
    pos,        \* counter engine: footnotes processed so far
    counter,    \* counter engine: the footnote counter
    counterAt,  \* counter engine: the counter's value at each processed footnote
    origin,     \* the footnote declaration_location was called on
    at,         \* the footnote of the innermost frame of that call
    queries,    \* query_label calls made by that call so far
    results     \* per footnote: None or the outcome of its call

vars == <<phase, elem, derived, made, doc, heading, pos, counter, counterAt,
          origin, at, queries, results>>

authorVars == <<elem, derived, made>>
layoutVars == <<doc, heading, pos, counter, counterAt, origin, at, queries, results>>

NoOp == [op |-> "none", arg |-> None, self |-> None]
Op(name, arg, self) == [op |-> name, arg |-> Some(arg), self |-> self]

Init ==
    /\ phase = "author"
    /\ elem = None
    /\ derived = None
    /\ made = NoOp
    /\ doc = << >>
    /\ heading = None
    /\ pos = 0
    /\ counter = 0
    /\ counterAt = << >>
    /\ origin = 0
    /\ at = 0
    /\ queries = 0
    /\ results = << >>

\* --------------------------------------------------------------- authoring
WithContent ==
    /\ phase = "author"
    /\ \E c \in Contents :
        /\ elem' = Some(with_content(c))
        /\ made' = Op("with_content", c, None)
    /\ UNCHANGED <<phase, derived>>
    /\ UNCHANGED layoutVars

WithLabel ==
    /\ phase = "author"
    /\ \E l \in Labels :
        /\ elem' = Some(with_label(l))
        /\ made' = Op("with_label", l, None)
    /\ UNCHANGED <<phase, derived>>
    /\ UNCHANGED layoutVars

\* A Content value cast to FootnoteElem.
CastElem ==
    /\ phase = "author"
    /\ \E c \in Contents :
        /\ elem' = Some(cast_FootnoteElem(c))
        /\ made' = Op("cast_elem", c, None)
    /\ UNCHANGED <<phase, derived>>
    /\ UNCHANGED layoutVars

\* footnote(numbering: n, body): the body argument is cast to FootnoteBody.
Construct ==
    /\ phase = "author"
    /\ \E v \in Values, n \in Numberings :
        /\ elem' = Some(with_numbering(new(cast_FootnoteBody(v)), n))
        /\ made' = Op("construct", v, None)
    /\ UNCHANGED <<phase, derived>>
    /\ UNCHANGED layoutVars

\* elem.into_ref(l): takes &self, returns a new element.
IntoRef ==
    /\ phase = "author"
    /\ elem # None
    /\ \E l \in Labels :
        /\ derived' = Some(into_ref(unwrap(elem), l))
        /\ made' = Op("into_ref", l, elem)
    /\ UNCHANGED <<phase, elem>>
    /\ UNCHANGED layoutVars

\* ------------------------------------------------------------ index service
\* The elements of the document that carry label l.
Matches(d, h, l) ==
    {[kind |-> "footnote", idx |-> i] : i \in {j \in DOMAIN d : d[j].label = Some(l)}}
        \cup (IF h = Some(l) THEN {[kind |-> "heading", idx |-> 0]} ELSE {})

\* Introspector::query_label: the unique element with the label, or an error.
query_label(d, h, l) ==
    LET m == Matches(d, h, l) IN
    IF m = {} THEN [ok |-> FALSE, err |-> "label does not exist in the document"]
    ELSE IF Cardinality(m) > 1
        THEN [ok |-> FALSE, err |-> "label occurs multiple times in the document"]
    ELSE [ok |-> TRUE, v |-> CHOOSE e \in m : TRUE]

\* Content::to_packed::<FootnoteElem>(): Some(the footnote) or None.
to_packed(d, element) ==
    IF element.kind = "footnote" THEN Some(element.idx) ELSE None

\* ------------------------------------ declaration_location, lines 119-136
Ok(loc) == [kind |-> "ok", v |-> loc]
Err(msg) == [kind |-> "err", v |-> msg]
Panic == [kind |-> "panic", v |-> "called Option::unwrap() on a None value"]
Recurse(i) == [kind |-> "recurse", v |-> i]

NotAFootnote == "referenced element should be a footnote"
SelfReference == "footnote cannot reference itself"

\* Variants of declaration_location with one fault each.
\* The target's location is returned instead of the target's declaration.
declaration_location_one_hop(d, h, i) ==
    LET self == d[i] IN
    IF self.elem.body.tag = "Reference" THEN
        LET element == query_label(d, h, self.elem.body.v) IN
        IF ~element.ok THEN Err(element.err)
        ELSE LET footnote == to_packed(d, element.v) IN
            IF footnote = None THEN Err(NotAFootnote)
            ELSE IF self.location = d[unwrap(footnote)].location THEN Err(SelfReference)
            ELSE IF d[unwrap(footnote)].location = None THEN Panic
            ELSE Ok(unwrap(d[unwrap(footnote)].location))
    ELSE IF self.location = None THEN Panic
    ELSE Ok(unwrap(self.location))

\* The body is not looked at: the footnote's own location is returned.
declaration_location_own(d, h, i) ==
    LET self == d[i] IN
    IF self.location = None THEN Panic ELSE Ok(unwrap(self.location))

\* The comparison of the two locations is left out.
declaration_location_no_guard(d, h, i) ==
    LET self == d[i] IN
    IF self.elem.body.tag = "Reference" THEN
        LET element == query_label(d, h, self.elem.body.v) IN
        IF ~element.ok THEN Err(element.err)
        ELSE LET footnote == to_packed(d, element.v) IN
            IF footnote = None THEN Err(NotAFootnote)
            ELSE Recurse(unwrap(footnote))
    ELSE IF self.location = None THEN Panic
    ELSE Ok(unwrap(self.location))

\* A failed query is reported as a missing footnote.
declaration_location_masks_error(d, h, i) ==
    LET self == d[i] IN
    IF self.elem.body.tag = "Reference" THEN
        LET element == query_label(d, h, self.elem.body.v) IN
        IF ~element.ok THEN Err(NotAFootnote)
        ELSE LET footnote == to_packed(d, element.v) IN
            IF footnote = None THEN Err(NotAFootnote)
            ELSE IF self.location = d[unwrap(footnote)].location THEN Err(SelfReference)
            ELSE Recurse(unwrap(footnote))
    ELSE IF self.location = None THEN Panic
    ELSE Ok(unwrap(self.location))

\* One frame of declaration_location, on footnote i of document d: what it
\* returns, or the footnote it calls itself on.
declaration_location(d, h, i) ==
    LET self == d[i] IN
    IF self.elem.body.tag = "Reference" THEN
        LET element == query_label(d, h, self.elem.body.v) IN
        IF ~element.ok THEN Err(element.err)
        ELSE LET footnote == to_packed(d, element.v) IN
            IF footnote = None THEN Err(NotAFootnote)
            ELSE IF self.location = d[unwrap(footnote)].location THEN Err(SelfReference)
            ELSE Recurse(unwrap(footnote))
    ELSE IF self.location = None THEN Panic
    ELSE Ok(unwrap(self.location))

\* ------------------------------------------------- Count::update, lines 138-142
NoUpdate == None
Step(n) == Some([kind |-> "step", by |-> n])

update_counts_refs(self) == Step(1)
update(self) == IF ~is_ref(self.elem) THEN Step(1) ELSE NoUpdate

\* -------------------------------------------------------------- layout pass
\* Markup evaluation is over.
EndAuthoring ==
    /\ phase = "author"
    /\ phase' = "authored"
    /\ elem' = None
    /\ derived' = None
    /\ made' = NoOp
    /\ UNCHANGED layoutVars

\* The layout pass starts on a document: its footnotes, the labels they carry
\* and the locations assigned so far.
BeginLayout ==
    /\ phase = "authored"
    /\ \E f \in [Nodes -> Shapes], P \in SUBSET Nodes, h \in OptLabels :
        /\ doc' = MkDoc(f, P)
        /\ heading' = h
    /\ phase' = "count"
    /\ UNCHANGED authorVars
    /\ pos' = 0
    /\ counter' = 0
    /\ counterAt' = [i \in Nodes |-> None]
    /\ origin' = 0
    /\ at' = 0
    /\ queries' = 0
    /\ results' = [i \in Nodes |-> None]

\* The counter engine applies an update directive.
Apply(c, u) == IF u = NoUpdate THEN c ELSE c + unwrap(u).by

\* The counter engine takes the next footnote in document order; a placed
\* footnote is asked for its update, and the counter's value at it is kept.
CountStep ==
    /\ phase = "count"
    /\ pos < NumNodes
    /\ LET i == pos + 1
           c == IF doc[i].location = None THEN counter ELSE Apply(counter, update(doc[i]))
       IN /\ pos' = i
          /\ counter' = c
          /\ counterAt' = IF doc[i].location = None THEN counterAt
                          ELSE [counterAt EXCEPT ![i] = Some(c)]
    /\ UNCHANGED <<phase, doc, heading, origin, at, queries, results>>
    /\ UNCHANGED authorVars

\* Counting is over; declaration_location is called on the first footnote.
BeginResolve ==
    /\ phase = "count"
    /\ pos = NumNodes
    /\ phase' = "resolve"
    /\ origin' = 1
    /\ at' = 1
    /\ queries' = 0
    /\ UNCHANGED <<doc, heading, pos, counter, counterAt, results>>
    /\ UNCHANGED authorVars

\* The number of queries is only observed up to MaxQueries.
MaxQueries == NumNodes + 1
Bump(q) == IF q < MaxQueries THEN q + 1 ELSE q

Outcome(r, q) == [kind |-> r.kind, v |-> r.v, queries |-> q]

\* One frame of the call on `origin` runs: it returns (and every frame above
\* it returns the same value), panics, or calls itself on the target.
ResolveStep ==
    /\ phase = "resolve"
    /\ LET r == declaration_location(doc, heading, at)
           q == IF is_ref(doc[at].elem) THEN Bump(queries) ELSE queries
       IN IF r.kind = "recurse" THEN
              /\ at' = r.v
              /\ queries' = q
              /\ UNCHANGED <<phase, origin, results>>
          ELSE IF r.kind = "panic" THEN
              /\ results' = [results EXCEPT ![origin] = Some(Outcome(r, q))]
              /\ phase' = "aborted"
              /\ queries' = q
              /\ UNCHANGED <<origin, at>>
          ELSE
              /\ results' = [results EXCEPT ![origin] = Some(Outcome(r, q))]
              /\ IF origin < NumNodes
                    THEN /\ origin' = origin + 1
                         /\ at' = origin + 1
                         /\ queries' = 0
                         /\ phase' = "resolve"
                    ELSE /\ phase' = "done"
                         /\ queries' = q
                         /\ UNCHANGED <<origin, at>>
    /\ UNCHANGED <<doc, heading, pos, counter, counterAt>>
    /\ UNCHANGED authorVars

Next ==
    \/ WithContent
    \/ WithLabel
    \/ CastElem
    \/ Construct
    \/ IntoRef
    \/ EndAuthoring
    \/ BeginLayout
    \/ CountStep
    \/ BeginResolve
    \/ ResolveStep

Spec == Init /\ [][Next]_vars

\* A call is synchronous: once made, its frames run one after another.
FairSpec == Spec /\ WF_vars(ResolveStep)

\* ------------------------------------------------------------------ helpers
InLayout == phase \in {"count", "resolve", "done", "aborted"}

IsContent(i) == doc[i].elem.body.tag = "Content"
IsPlaced(i) == doc[i].location # None

\* Footnote r is a reference whose label denotes exactly footnote t.
Refers(r, t) ==
    /\ is_ref(doc[r].elem)
    /\ Matches(doc, heading, doc[r].elem.body.v) = {[kind |-> "footnote", idx |-> t]}

\* counter(footnote).at(loc): the counter's value at the footnote placed at loc.
CounterAtLoc(loc) == counterAt[CHOOSE i \in Nodes : doc[i].location = Some(loc)]

\* The chains that start at footnote i and avoid the footnotes in seen: a chain
\* is a run of distinct placed references, each denoting the next, that ends
\* in a placed footnote with a Content body. Each chain is given as
\* <<its last footnote, its number of references>>.
RECURSIVE ChainsFrom(_, _)
ChainsFrom(i, seen) ==
    IF ~IsPlaced(i) THEN {}
    ELSE IF IsContent(i) THEN {<<i, 0>>}
    ELSE LET next == {t \in Nodes \ (seen \cup {i}) : Refers(i, t)}
             rest == UNION {ChainsFrom(t, seen \cup {i}) : t \in next}
         IN {<<c[1], c[2] + 1>> : c \in rest}

Returned(i) == results[i] # None

\* ------------------------------------------------------------------- claims

\* C1: a call of declaration_location finishes: once it is made, it comes to
\* an end. (A panic is counted as an end here, so that only a call that runs
\* forever refutes this.)
C1_Terminates == (phase = "resolve") ~> (phase \in {"done", "aborted"})

\* C2: when the counter engine has processed footnotes in document order, the
\* footnote counter equals the number of processed footnotes with a Content
\* body; references add nothing, wherever they stand.
C2_CounterCountsContent ==
    InLayout => counter = Cardinality({i \in 1..pos : IsPlaced(i) /\ IsContent(i)})

C2_Witness ==
    /\ phase = "resolve"
    /\ counter = 1
    /\ \E r1, t, r2 \in Nodes :
        /\ r1 < t /\ t < r2
        /\ Refers(r1, t) /\ Refers(r2, t)
        /\ IsContent(t)
        /\ IsPlaced(r1) /\ IsPlaced(t) /\ IsPlaced(r2)

\* C3: on a chain of k >= 0 placed references ending in a placed Content
\* footnote, declaration_location on the first footnote returns the last
\* footnote's location after exactly k label queries (k = 0: its own
\* location, no query).
C3_ChainResolves ==
    InLayout =>
        \A o \in Nodes :
            Returned(o) =>
                \A c \in ChainsFrom(o, {}) :
                    unwrap(results[o]) =
                        [kind |-> "ok",
                         v |-> unwrap(doc[c[1]].location),
                         queries |-> c[2]]

C3_Witness ==
    /\ InLayout
    /\ \E o \in Nodes, e \in Nodes :
        /\ Returned(o)
        /\ <<e, 2>> \in ChainsFrom(o, {})
        /\ Returned(e)
        /\ <<e, 0>> \in ChainsFrom(e, {})

\* C4: two references that denote the same placed Content footnote resolve
\* to that footnote's location, so the counter value read there is the same
\* for both and for the footnote itself.
C4_SameOrdinal ==
    InLayout =>
        \A t \in Nodes :
            (IsContent(t) /\ IsPlaced(t)) =>
                LET refs == {r \in Nodes : Returned(r) /\ Refers(r, t)} IN
                \A r1, r2 \in refs :
                    r1 # r2 =>
                        LET a == unwrap(results[r1])
                            b == unwrap(results[r2])
                        IN /\ a.kind = "ok" /\ b.kind = "ok"
                           /\ a.v = unwrap(doc[t].location)
                           /\ b.v = a.v
                           /\ CounterAtLoc(a.v) = counterAt[t]
                           /\ CounterAtLoc(b.v) = counterAt[t]
                           /\ Returned(t) =>
                                /\ unwrap(results[t]).kind = "ok"
                                /\ CounterAtLoc(unwrap(results[t]).v) = counterAt[t]

C4_Witness ==
    /\ phase = "done"
    /\ \E r1, r2, t \in Nodes :
        /\ r1 < t /\ t < r2
        /\ Refers(r1, t) /\ Refers(r2, t)
        /\ IsContent(t) /\ IsPlaced(t)
        /\ Returned(r1) /\ Returned(r2)
        /\ unwrap(results[r1]).kind = "ok"
        /\ unwrap(results[r2]).kind = "ok"
        /\ unwrap(results[r1]).v = unwrap(results[r2]).v

\* The frame about to run is a placed reference whose label denotes a
\* footnote with the same location.
SelfRefCase ==
    /\ phase = "resolve"
    /\ is_ref(doc[at].elem)
    /\ IsPlaced(at)
    /\ \E t \in Nodes : Refers(at, t) /\ doc[t].location = doc[at].location

\* C5: a frame on a reference whose label denotes a footnote with the
\* caller's own location fails with the self-reference error at once: the
\* call returns that error, without a further frame or query.
C5_SelfReferenceRejected ==
    [][SelfRefCase =>
        results'[origin] =
            Some([kind |-> "err", v |-> SelfReference, queries |-> Bump(queries)])]_vars

C5_Witness ==
    /\ InLayout
    /\ \E o \in Nodes :
        /\ Refers(o, o)
        /\ IsPlaced(o)
        /\ results[o] = Some([kind |-> "err", v |-> SelfReference, queries |-> 1])

\* C6: a frame on a Content footnote without a location makes the call fail
\* with an error value that is returned to the caller.
C6_NotYetPlacedReturned ==
    [][(/\ phase = "resolve"
        /\ IsContent(at)
        /\ ~IsPlaced(at)) =>
            /\ results'[origin] # None
            /\ unwrap(results'[origin]).kind = "err"]_vars

\* The frame about to run is a reference whose label query fails.
QueryFails ==
    /\ phase = "resolve"
    /\ is_ref(doc[at].elem)
    /\ Cardinality(Matches(doc, heading, doc[at].elem.body.v)) # 1

\* C7: when the label query of a frame fails, at the first hop or deeper, the
\* call returns the query's error as it is, and makes no further query.
C7_QueryErrorPropagates ==
    [][QueryFails =>
        results'[origin] =
            Some([kind |-> "err",
                  v |-> query_label(doc, heading, doc[at].elem.body.v).err,
                  queries |-> Bump(queries)])]_vars

C7_Witness ==
    /\ InLayout
    /\ \E o \in Nodes :
        /\ Returned(o)
        /\ unwrap(results[o]).kind = "err"
        /\ unwrap(results[o]).queries = 2
        /\ unwrap(results[o]).v = "label occurs multiple times in the document"

IsLabel(v) == v.kind = "label"
IsFootnote(v) == v.kind = "footnote"

\* What constructing from a content value c must give: the element's content
\* is c and it is no reference.
RoundTrips(c) ==
    /\ body_content(unwrap(elem)) = Some(c)
    /\ ~is_ref(unwrap(elem))

\* What constructing from a label must give.
IsReferenceOnly ==
    /\ body_content(unwrap(elem)) = None
    /\ is_ref(unwrap(elem))

FromContent == made.op \in {"with_content", "cast_elem", "construct"}
                /\ ~IsLabel(unwrap(made.arg))
FromLabel == made.op \in {"with_label", "construct"} /\ IsLabel(unwrap(made.arg))

\* C8 as stated: a footnote constructed from any content value c, by a
\* constructor or by a cast, has body_content = c and is no reference; one
\* constructed from a label has no body_content and is a reference.
C8_RoundTripAnyContent ==
    /\ FromContent => RoundTrips(unwrap(made.arg))
    /\ FromLabel => IsReferenceOnly

\* C8 amended: as stated, except that the cast of a content value to
\* FootnoteElem, when the content is itself a footnote element, gives that
\* footnote element and not a footnote around it.
C8_RoundTrip ==
    /\ (FromContent /\ ~(made.op = "cast_elem" /\ IsFootnote(unwrap(made.arg))))
            => RoundTrips(unwrap(made.arg))
    /\ (made.op = "cast_elem" /\ IsFootnote(unwrap(made.arg)))
            => elem = Some(unwrap(made.arg).elem)
    /\ FromLabel => IsReferenceOnly

C8_Witness ==
    /\ made.op = "cast_elem"
    /\ unwrap(made.arg) \in Texts
    /\ body_content(unwrap(elem)) = made.arg

\* C9: into_ref gives an element whose body is Reference(label) and whose
\* other fields are those of the receiver, whatever the receiver's body, and
\* leaves the receiver as it was.
C9_IntoRefPure ==
    made.op = "into_ref" =>
        LET out == unwrap(derived)
            before == unwrap(made.self)
        IN /\ out.body = BodyReference(unwrap(made.arg))
           /\ DOMAIN out = DOMAIN before
           /\ \A fld \in DOMAIN before \ {"body"} : out[fld] = before[fld]
           /\ elem = made.self

C9_Witness ==
    /\ made.op = "into_ref"
    /\ unwrap(elem).numbering = "*"
    /\ is_ref(unwrap(elem))
    /\ unwrap(derived).body # unwrap(elem).body
    /\ unwrap(derived).numbering = "*"

\* C10: the self-reference error is returned only by a frame on a reference
\* whose label denotes that very footnote.
C10_SelfReferenceOnlyForSelf ==
    [][(/\ phase = "resolve"
        /\ results'[origin] # None
        /\ unwrap(results'[origin]).kind = "err"
        /\ unwrap(results'[origin]).v = SelfReference) =>
            Refers(at, at)]_vars

====
